------------------------------ MODULE Spec2Model ------------------------------
(***************************************************************************)
(* Fund dashboard (np2446/GUI-Project): the aggregation functions of       *)
(* src/src/utils/dataLoader.js, the App component's state and derived data *)
(* (src/src/App.js) and the PieChart click listener                        *)
(* (components/PieChart.js).                                               *)
(*                                                                         *)
(* The specifications share the variables:                                  *)
(*   Spec     the mounted application: the load, the renders, the 100 ms   *)
(*            listener timers and the clicks on the two charts;            *)
(*   SpecFair Spec with the fairness of the handlers and the renders;     *)
(*   SpecDev  the development build: StrictMode runs the load twice;       *)
(*   SpecCells the same, on a sheet with numeric and blank FundType cells; *)
(*   SpecAgg  calls of calculateTotalAUM, groupDataByField and             *)
(*            aggregateByField on bounded record sequences, whose cells    *)
(*            range over the JavaScript values a worksheet can yield.      *)
(***************************************************************************)
EXTENDS Integers, Sequences, FiniteSets, TLC

VARIABLES
  \* ---- App.js useState hooks (the state the last render committed) ----
  fundData,          \* App.js:25
  loading,           \* App.js:27
  error,             \* App.js:29
  selectedFundType,  \* App.js:31
  selectedSubFund,   \* App.js:33
  \* ---- React's scheduling: updates queued by setState, not yet rendered ----
  pending,           \* sequence of [hook, value]
  pc,                \* "idle", or the handler step that runs next
  fetch,             \* the promise of loadExcelData: "pending" | "settled"
  \* ---- what the last render produced ----
  view,              \* screen, totalAUM, fundTypeData, subFundData, fundDetailsData
  mainChart,         \* the PieChart of App.js:145 and its effect's closure
  subChart,          \* the PieChart of App.js:162 and its effect's closure
  \* ---- history of handled clicks (for the claims about two clicks) ----
  inflight,          \* the click being handled: chart, label, selection before
  lastSel,           \* the last handled click
  repeated,          \* the last two handled clicks hit the same segment
  \* ---- SpecAgg: one call of a dataLoader function ----
  aggIn,             \* the data argument
  aggOut             \* the call made and what it returned

vars == << fundData, loading, error, selectedFundType, selectedSubFund,
           pending, pc, fetch, view, mainChart, subChart, inflight, lastSel,
           repeated, aggIn, aggOut >>

appVars == << fundData, loading, error, selectedFundType, selectedSubFund,
              pending, pc, fetch, view, mainChart, subChart, inflight, lastSel,
              repeated >>

aggVars == << aggIn, aggOut >>

-----------------------------------------------------------------------------
(* Bounds of the model *)

\* longest record sequence the load can deliver (Spec)
MaxRecords == 2

\* longest record sequence passed to a dataLoader function (SpecAgg)
MaxLen == 2

\* largest integer whose decimal string is recognised as an integer-like
\* property key (JavaScript: every canonical array index below 2^32 - 1)
MaxIntKey == 10

-----------------------------------------------------------------------------
(* JavaScript values: a tag, a number and a string, so that any two values  *)
(* compare.                                                                 *)

Undefined == [t |-> "undefined", n |-> 0, s |-> ""]
JsNull    == [t |-> "null", n |-> 0, s |-> ""]
JsNaN     == [t |-> "NaN", n |-> 0, s |-> ""]
Num(k)    == [t |-> "number", n |-> k, s |-> ""]
Str(x)    == [t |-> "string", n |-> 0, s |-> x]

\* a === b
StrictEq(a, b) == a = b /\ a.t # "NaN"

\* ToBoolean: what `!v`, `v || 0` and `v && ...` test
Truthy(v) ==
  CASE v.t = "number" -> v.n # 0
    [] v.t = "string" -> v.s # ""
    [] OTHER -> FALSE

\* v || 0
OrZero(v) == IF Truthy(v) THEN v ELSE Num(0)

\* ToString, as `+` with a string operand and property keys apply it
ToStr(v) ==
  CASE v.t = "number" -> ToString(v.n)
    [] v.t = "string" -> v.s
    [] v.t = "undefined" -> "undefined"
    [] v.t = "null" -> "null"
    [] OTHER -> "NaN"

\* a + b: concatenation once either operand is a string, addition otherwise
\* (undefined and NaN make the sum NaN, null counts 0)
Plus(a, b) ==
  IF a.t = "string" \/ b.t = "string"
    THEN Str(ToStr(a) \o ToStr(b))
    ELSE IF a.t \in {"undefined", "NaN"} \/ b.t \in {"undefined", "NaN"}
      THEN JsNaN
      ELSE Num(a.n + b.n)

\* a `data` argument: an array of records, or null / undefined
Arr(items) == [t |-> "array", items |-> items]
NoArray(tag) == [t |-> tag, items |-> << >>]

\* !data || !data.length
NoData(data) == data.t # "array" \/ Len(data.items) = 0

\* item[field] of a record of the sheet
Field(item, field) ==
  CASE field = "FundType" -> item.FundType
    [] field = "Fund" -> item.Fund
    [] field = "MV" -> item.MV
    [] field = "Equity" -> item.Equity

-----------------------------------------------------------------------------
(* Plain objects used as maps: `{}` and groups[key]                        *)

\* names every object literal inherits from Object.prototype
ObjectPrototypeKeys ==
  { "constructor", "toString", "valueOf", "hasOwnProperty", "isPrototypeOf",
    "propertyIsEnumerable", "toLocaleString", "__proto__" }

\* own properties in insertion order: a sequence of [key, items]
HasOwn(groups, key) == \E i \in 1..Len(groups) : groups[i].key = key

\* !groups[key]: an own property holds an array (truthy), an inherited
\* one a function or object (truthy), anything else is undefined
Missing(groups, key) == ~HasOwn(groups, key) /\ key \notin ObjectPrototypeKeys

\* groups[key].push(item) on an own array
Push(groups, key, item) ==
  [i \in 1..Len(groups) |->
     IF groups[i].key = key
       THEN [key |-> key, items |-> Append(groups[i].items, item)]
       ELSE groups[i]]

\* a canonical integer key ("0", "2", "10"; not "02")
IsIntegerKey(key) == \E k \in 0..MaxIntKey : ToString(k) = key
IntegerOf(key) == CHOOSE k \in 0..MaxIntKey : ToString(k) = key

\* ascending insertion of an integer-keyed entry
RECURSIVE InsertByInteger(_, _)
InsertByInteger(sorted, e) ==
  IF sorted = << >> THEN << e >>
  ELSE IF IntegerOf(e.key) < IntegerOf(Head(sorted).key)
         THEN << e >> \o sorted
         ELSE << Head(sorted) >> \o InsertByInteger(Tail(sorted), e)

RECURSIVE SortByInteger(_)
SortByInteger(es) ==
  IF es = << >> THEN << >>
  ELSE InsertByInteger(SortByInteger(Tail(es)), Head(es))

IsIntegerEntry(e) == IsIntegerKey(e.key)
IsStringEntry(e) == ~IsIntegerKey(e.key)

\* Object.entries(groups): integer-like keys first, in ascending numeric
\* order, then the other keys in insertion order (OrdinaryOwnPropertyKeys)
ObjectEntries(groups) ==
  SortByInteger(SelectSeq(groups, IsIntegerEntry))
    \o SelectSeq(groups, IsStringEntry)

-----------------------------------------------------------------------------
(* src/src/utils/dataLoader.js                                              *)

\* data.reduce((sum, item) => sum + (item[valueField] || 0), 0)
RECURSIVE ReduceSum(_, _, _)
ReduceSum(items, valueField, sum) ==
  IF items = << >> THEN sum
  ELSE ReduceSum(Tail(items), valueField,
                 Plus(sum, OrZero(Field(Head(items), valueField))))

calculateTotalAUM(data) ==
  IF NoData(data) THEN Num(0) ELSE ReduceSum(data.items, "MV", Num(0))

\* the reducer of groupDataByField, one item at a time; threw: the
\* TypeError of groups[key].push when groups[key] is inherited
RECURSIVE GroupReduce(_, _, _)
GroupReduce(items, field, acc) ==
  IF items = << >> \/ acc.threw THEN acc
  ELSE LET item == Head(items)
           key == ToStr(Field(item, field))
           made == IF Missing(acc.groups, key)
                     THEN Append(acc.groups, [key |-> key, items |-> << >>])
                     ELSE acc.groups
       IN IF HasOwn(made, key)
            THEN GroupReduce(Tail(items), field,
                             [threw |-> FALSE, groups |-> Push(made, key, item)])
            ELSE [threw |-> TRUE, groups |-> made]

\* groupDataByField without the guard of line 79: data.reduce on null or
\* undefined is a TypeError
groupDataByField_NoGuard(data, field) ==
  IF data.t # "array" THEN [threw |-> TRUE, groups |-> << >>]
  ELSE GroupReduce(data.items, field, [threw |-> FALSE, groups |-> << >>])

groupDataByField(data, field) ==
  IF NoData(data) THEN [threw |-> FALSE, groups |-> << >>]
  ELSE GroupReduce(data.items, field, [threw |-> FALSE, groups |-> << >>])

\* one row { [groupField]: key, [valueField]: sum, count }
AggregateRow(entry, valueField) ==
  [key |-> Str(entry.key),
   value |-> ReduceSum(entry.items, valueField, Num(0)),
   count |-> Len(entry.items)]

aggregateByField(data, groupField, valueField) ==
  IF NoData(data) THEN [threw |-> FALSE, rows |-> << >>]
  ELSE LET g == groupDataByField(data, groupField)
       IN IF g.threw THEN [threw |-> TRUE, rows |-> << >>]
          ELSE LET entries == ObjectEntries(g.groups)
               IN [threw |-> FALSE,
                   rows |-> [i \in 1..Len(entries) |->
                               AggregateRow(entries[i], valueField)]]

-----------------------------------------------------------------------------
(* The records the load can deliver (Spec): the columns of the README, MV   *)
(* and Equity possibly blank (sheet_to_json leaves a blank cell out)        *)

FundTypes == { Str("Equity"), Str("Bond") }
Funds == { Str("A"), Str("B") }
MVs == { Undefined, Num(1) }
Equities == { Num(1) }

Records ==
  [FundType : FundTypes, Fund : Funds, MV : MVs, Equity : Equities]

Datasets == UNION { [1..n -> Records] : n \in 0..MaxRecords }

\* `Failed to load data: ${err.message}` (App.js:71)
LoadErrorMessage == Str("Failed to load data: Failed to load Excel data")

-----------------------------------------------------------------------------
(* src/src/App.js: the derived data of one render (lines 40-53) and what    *)
(* the render returns (lines 99-189)                                        *)

\* number.toFixed exists; on a string or undefined the call throws
HasToFixed(v) == v.t \in {"number", "NaN"}

\* subFundData.reduce((sum, item) => sum + item.MV, 0)   (App.js:166)
RECURSIVE ReduceRows(_, _)
ReduceRows(rows, sum) ==
  IF rows = << >> THEN sum
  ELSE ReduceRows(Tail(rows), Plus(sum, Head(rows).value))

\* fundData.filter(item => item.FundType === selectedFundType)
OfFundType(fd, ft) ==
  LET Keep(item) == StrictEq(item.FundType, ft) IN SelectSeq(fd, Keep)

\* fundData.filter(item => item.Fund === selectedSubFund)
OfFund(fd, sf) ==
  LET Keep(item) == StrictEq(item.Fund, sf) IN SelectSeq(fd, Keep)

\* Derived with the headline total taken over the selected fund type's
\* records only
Derived_TotalOfSelection(fd, ft, sf) ==
  [totalAUM |-> IF Truthy(ft) THEN calculateTotalAUM(Arr(OfFundType(fd, ft)))
                ELSE calculateTotalAUM(Arr(fd)),
   fundTypeData |-> aggregateByField(Arr(fd), "FundType", "MV"),
   subFundData |-> IF Truthy(ft)
                     THEN aggregateByField(Arr(OfFundType(fd, ft)), "Fund", "MV")
                     ELSE [threw |-> FALSE, rows |-> << >>],
   fundDetailsData |-> IF Truthy(sf) THEN OfFund(fd, sf) ELSE << >>]

\* the derived data of one render (App.js:40-53)
Derived(fd, ft, sf) ==
  [totalAUM |-> calculateTotalAUM(Arr(fd)),
   fundTypeData |-> aggregateByField(Arr(fd), "FundType", "MV"),
   subFundData |-> IF Truthy(ft)
                     THEN aggregateByField(Arr(OfFundType(fd, ft)), "Fund", "MV")
                     ELSE [threw |-> FALSE, rows |-> << >>],
   fundDetailsData |-> IF Truthy(sf) THEN OfFund(fd, sf) ELSE << >>]

\* components/FundDetails.js: the rows and the total row, or the TypeError
\* of item.MV.toFixed / item.Equity.toFixed on a cell that is no number
FundDetails(data, fundName) ==
  IF Len(data) = 0 \/ ~Truthy(fundName)
    THEN [threw |-> FALSE, shown |-> FALSE, rows |-> << >>,
          totalMV |-> Num(0), totalEquity |-> Num(0)]
    ELSE [threw |-> \E i \in 1..Len(data) :
                      ~HasToFixed(data[i].MV) \/ ~HasToFixed(data[i].Equity),
          shown |-> TRUE, rows |-> data,
          totalMV |-> ReduceSum(data, "MV", Num(0)),
          totalEquity |-> ReduceSum(data, "Equity", Num(0))]

\* ShowsSubChart without the guard of App.js:156
ShowsSubChart_Always(ft) == TRUE

\* the sub-fund chart is part of the output (App.js:156)
ShowsSubChart(ft) == Truthy(ft)

\* the details table is part of the output (App.js:176)
ShowsFundDetails(sf) == Truthy(sf)

\* the render throws: an aggregation threw, or a toFixed of the dashboard
\* branch met a value that is no number (lines 151, 166, FundDetails)
RenderThrows(d, ld, er, ft, sf) ==
  \/ d.fundTypeData.threw
  \/ d.subFundData.threw
  \/ /\ ~ld
     /\ ~Truthy(er)
     /\ \/ ~HasToFixed(d.totalAUM)
        \/ /\ ShowsSubChart(ft)
           /\ ~HasToFixed(ReduceRows(d.subFundData.rows, Num(0)))
        \/ /\ ShowsFundDetails(sf)
           /\ FundDetails(d.fundDetailsData, sf).threw

\* which branch of App's render returns (lines 99, 113, 128)
Screen(d, ld, er, ft, sf) ==
  IF RenderThrows(d, ld, er, ft, sf) THEN "crashed"
  ELSE IF ld THEN "loading"
  ELSE IF Truthy(er) THEN "error"
  ELSE "dashboard"

\* nothing of the dashboard is shown
EmptyView(screen) ==
  [screen |-> screen, totalAUM |-> Num(0), fundTypeData |-> << >>,
   subFundData |-> << >>, details |-> FundDetails(<< >>, JsNull)]

\* what one render of App computes and shows; an uncaught error of the
\* render unmounts the tree
Render(fd, ld, er, ft, sf) ==
  LET d == Derived(fd, ft, sf)
      screen == Screen(d, ld, er, ft, sf)
  IN IF screen = "crashed" THEN EmptyView("crashed")
     ELSE [screen |-> screen,
           totalAUM |-> d.totalAUM,
           fundTypeData |-> d.fundTypeData.rows,
           subFundData |-> d.subFundData.rows,
           details |-> IF screen = "dashboard" /\ ShowsFundDetails(sf)
                         THEN FundDetails(d.fundDetailsData, sf)
                         ELSE FundDetails(<< >>, JsNull)]

-----------------------------------------------------------------------------
(* components/PieChart.js: the effect of lines 59-129                      *)

\* no PieChart mounted. A mounted one: whether the Pie (its canvas) is
\* rendered; the state of the last effect run (timer pending, handleClick
\* registered, the labels and selectedItem its closure holds); and the click
\* listeners attached to the canvas, each the closure of one handleClick
NoChart ==
  [present |-> FALSE, canvas |-> FALSE, timer |-> FALSE, listener |-> FALSE,
   labels |-> << >>, selectedItem |-> JsNull, attached |-> << >>]

\* data.map(item => item[labelField])
Labels(rows) == [i \in 1..Len(rows) |-> rows[i].key]

\* the handleClick of the effect run last: what its closure holds
Closure(chart) == [labels |-> chart.labels, selectedItem |-> chart.selectedItem]

\* canvas.removeEventListener('click', handleClick)
RemoveListener(attached, closure) ==
  IF \E k \in 1..Len(attached) : attached[k] = closure
    THEN LET k == CHOOSE k \in 1..Len(attached) : attached[k] = closure
         IN SubSeq(attached, 1, k - 1) \o SubSeq(attached, k + 1, Len(attached))
    ELSE attached

\* cleanup that leaves the listener on the canvas
cleanup_KeepsListener(chart) ==
  [chart EXCEPT !.timer = FALSE, !.listener = FALSE]

\* the cleanup of the effect (lines 117-128): clearTimeout, and
\* removeEventListener if setupClickHandler had registered handleClick
cleanup(chart) ==
  [chart EXCEPT !.timer = FALSE,
                !.listener = FALSE,
                !.attached = IF chart.listener
                               THEN RemoveListener(@, Closure(chart))
                               ELSE @]

\* PieChartEffect with selectedItem left out of the deps: the closure keeps
\* the selectedItem of the first render
PieChartEffect_StaleSelection(chart, rows, selectedItem) ==
  [present |-> TRUE, canvas |-> Len(rows) > 0, timer |-> Len(rows) > 0,
   listener |-> FALSE, labels |-> Labels(rows), selectedItem |-> JsNull,
   attached |-> IF chart.canvas /\ Len(rows) > 0
                  THEN cleanup(chart).attached ELSE << >>]

\* The chart after a render with props (data, selectedItem), `chart` being
\* the chart before it (NoChart if none was mounted). The deps
\* [data, labelField, selectedItem, onItemSelect] change with every render
\* of App (data and onItemSelect are made anew), so the cleanup of the last
\* effect runs and the effect runs again: no timer without data, else a
\* timer whose closure holds this render's labels and selectedItem. The
\* canvas, with the listeners left on it, stays while the Pie stays rendered.
PieChartEffect(chart, rows, selectedItem) ==
  [present |-> TRUE, canvas |-> Len(rows) > 0, timer |-> Len(rows) > 0,
   listener |-> FALSE, labels |-> Labels(rows), selectedItem |-> selectedItem,
   attached |-> IF chart.canvas /\ Len(rows) > 0
                  THEN cleanup(chart).attached ELSE << >>]

\* setupClickHandler, run by the 100 ms timer
setupClickHandler(chart) ==
  IF chart.canvas
    THEN [chart EXCEPT !.timer = FALSE,
                       !.listener = TRUE,
                       !.attached = Append(@, Closure(chart))]
    ELSE [chart EXCEPT !.timer = FALSE]

\* handleClick with the comparison inverted
handleClick_Inverted(chart, i) ==
  IF ~StrictEq(chart.labels[i], chart.selectedItem)
    THEN JsNull
    ELSE chart.labels[i]

\* handleClick without the toggle of lines 101-102
handleClick_NoToggle(chart, i) == chart.labels[i]

\* handleClick: the argument passed to onItemSelect for a click on segment i
handleClick(chart, i) ==
  IF StrictEq(chart.labels[i], chart.selectedItem)
    THEN JsNull
    ELSE chart.labels[i]

-----------------------------------------------------------------------------
(* App.js: the event handlers, as the state updates they queue, in order   *)

\* a queued setState call: the hook and the new value, kept in the field of
\* its type (the rows of fundData, the flag of loading, a JavaScript value)
Update(hook, value) ==
  [hook |-> hook,
   rows |-> IF hook = "fundData" THEN value ELSE << >>,
   flag |-> IF hook = "loading" THEN value ELSE FALSE,
   value |-> IF hook \in {"fundData", "loading"} THEN JsNull ELSE value]

Updated(update) ==
  IF update.hook = "fundData" THEN update.rows
  ELSE IF update.hook = "loading" THEN update.flag
  ELSE update.value

\* handleFundTypeSelect without the reset of App.js:86
handleFundTypeSelect_NoReset(fundType) ==
  << Update("selectedFundType", fundType) >>

handleFundTypeSelect(fundType) ==
  << Update("selectedFundType", fundType), Update("selectedSubFund", JsNull) >>

handleSubFundSelect(subFund) == << Update("selectedSubFund", subFund) >>

\* fetchData after the await: the try branch and the catch branch
fetchDataResolved(data) ==
  << Update("fundData", data), Update("loading", FALSE) >>

fetchDataRejected == << Update("error", LoadErrorMessage), Update("loading", FALSE) >>

\* the value a hook holds once the queued updates are applied in order:
\* that of the last update queued for it, else the one it holds
Reduced(queue, hook, current) ==
  LET updates == { i \in 1..Len(queue) : queue[i].hook = hook }
  IN IF updates = {} THEN current
     ELSE Updated(queue[CHOOSE i \in updates : \A j \in updates : j <= i])

-----------------------------------------------------------------------------
(* History of handled clicks *)

NoClick ==
  [chart |-> "none", label |-> JsNull, arg |-> JsNull,
   ft |-> JsNull, sf |-> JsNull]

ClickOf(chart, label, arg) ==
  [chart |-> chart, label |-> label, arg |-> arg,
   ft |-> selectedFundType, sf |-> selectedSubFund]

NotCalled ==
  [fn |-> "none", groupField |-> "", valueField |-> "", threw |-> FALSE,
   value |-> Num(0), groups |-> << >>, rows |-> << >>]

-----------------------------------------------------------------------------
(* Spec: the mounted application *)

\* after the first render: the initial hook values, the loading screen
MountedInit ==
  /\ fundData = << >>
  /\ loading = TRUE
  /\ error = JsNull
  /\ selectedFundType = JsNull
  /\ selectedSubFund = JsNull
  /\ pending = << >>
  /\ pc = "idle"
  /\ view = Render(<< >>, TRUE, JsNull, JsNull, JsNull)
  /\ mainChart = NoChart
  /\ subChart = NoChart
  /\ inflight = NoClick
  /\ lastSel = NoClick
  /\ repeated = FALSE

\* ... and after its effect (App.js:61-77, run once): fetch under way
AppInit ==
  /\ MountedInit
  /\ fetch = "pending"

Init ==
  /\ AppInit
  /\ aggIn = Arr(<< >>)
  /\ aggOut = NotCalled

\* React (createRoot: updates are batched) renders App with the queued
\* updates applied, commits, and runs the charts' effects
Commit(fd, ld, er, ft, sf) ==
  LET v == Render(fd, ld, er, ft, sf)
  IN /\ fundData' = fd
     /\ loading' = ld
     /\ error' = er
     /\ selectedFundType' = ft
     /\ selectedSubFund' = sf
     /\ view' = v
     /\ mainChart' = IF v.screen = "dashboard"
                       THEN PieChartEffect(mainChart, v.fundTypeData, ft)
                       ELSE NoChart
     /\ subChart' = IF v.screen = "dashboard" /\ ShowsSubChart(ft)
                      THEN PieChartEffect(subChart, v.subFundData, sf)
                      ELSE NoChart

\* loadExcelData resolves: setFundData(data); setLoading(false)
LoadResolved ==
  /\ fetch = "pending"
  /\ pc = "idle"
  /\ \E data \in Datasets : pending' = pending \o fetchDataResolved(data)
  /\ fetch' = "settled"
  /\ pc' = "flush"
  /\ UNCHANGED << fundData, loading, error, selectedFundType, selectedSubFund,
                  view, mainChart, subChart, inflight, lastSel, repeated,
                  aggVars >>

\* loadExcelData rejects: setError(...); setLoading(false)
LoadRejected ==
  /\ fetch = "pending"
  /\ pc = "idle"
  /\ pending' = pending \o fetchDataRejected
  /\ fetch' = "settled"
  /\ pc' = "flush"
  /\ UNCHANGED << fundData, loading, error, selectedFundType, selectedSubFund,
                  view, mainChart, subChart, inflight, lastSel, repeated,
                  aggVars >>

\* the 100 ms timer of the fund-type chart fires
MainTimer ==
  /\ pc = "idle"
  /\ mainChart.timer
  /\ mainChart' = setupClickHandler(mainChart)
  /\ UNCHANGED << fundData, loading, error, selectedFundType, selectedSubFund,
                  pending, pc, fetch, view, subChart, inflight, lastSel, repeated,
                  aggVars >>

\* the 100 ms timer of the sub-fund chart fires
SubTimer ==
  /\ pc = "idle"
  /\ subChart.timer
  /\ subChart' = setupClickHandler(subChart)
  /\ UNCHANGED << fundData, loading, error, selectedFundType, selectedSubFund,
                  pending, pc, fetch, view, mainChart, inflight, lastSel, repeated,
                  aggVars >>

\* a click on segment i of the fund-type chart, taken by a listener on its
\* canvas: handleClick, then the first statement of handleFundTypeSelect
\* (App.js:84)
MainClick ==
  /\ pc = "idle"
  /\ \E k \in 1..Len(mainChart.attached) :
       \E i \in 1..Len(mainChart.attached[k].labels) :
         LET arg == handleClick(mainChart.attached[k], i)
         IN /\ pending' = Append(pending, handleFundTypeSelect(arg)[1])
            /\ inflight' = ClickOf("main", mainChart.attached[k].labels[i], arg)
  /\ pc' = "handleFundTypeSelect"
  /\ UNCHANGED << fundData, loading, error, selectedFundType, selectedSubFund,
                  fetch, view, mainChart, subChart, lastSel, repeated,
                  aggVars >>

\* the rest of handleFundTypeSelect (App.js:86)
FundTypeSelectRest ==
  /\ pc = "handleFundTypeSelect"
  /\ pending' = pending \o Tail(handleFundTypeSelect(inflight.arg))
  /\ pc' = "flush"
  /\ UNCHANGED << fundData, loading, error, selectedFundType, selectedSubFund,
                  fetch, view, mainChart, subChart, inflight, lastSel, repeated,
                  aggVars >>

\* a click on segment i of the sub-fund chart, taken by a listener on its
\* canvas: handleClick, then handleSubFundSelect (App.js:91)
SubClick ==
  /\ pc = "idle"
  /\ \E k \in 1..Len(subChart.attached) :
       \E i \in 1..Len(subChart.attached[k].labels) :
         LET arg == handleClick(subChart.attached[k], i)
         IN /\ pending' = pending \o handleSubFundSelect(arg)
            /\ inflight' = ClickOf("sub", subChart.attached[k].labels[i], arg)
  /\ pc' = "flush"
  /\ UNCHANGED << fundData, loading, error, selectedFundType, selectedSubFund,
                  fetch, view, mainChart, subChart, lastSel, repeated,
                  aggVars >>

\* the handler has returned: React renders with the queued updates
Flush ==
  /\ pc = "flush"
  /\ Commit(Reduced(pending, "fundData", fundData),
            Reduced(pending, "loading", loading),
            Reduced(pending, "error", error),
            Reduced(pending, "selectedFundType", selectedFundType),
            Reduced(pending, "selectedSubFund", selectedSubFund))
  /\ pending' = << >>
  /\ pc' = "idle"
  /\ lastSel' = inflight
  /\ repeated' = /\ inflight.chart # "none"
                 /\ inflight.chart = lastSel.chart
                 /\ inflight.label = lastSel.label
  /\ inflight' = NoClick
  /\ UNCHANGED << fetch, aggVars >>

Next ==
  \/ LoadResolved
  \/ LoadRejected
  \/ MainTimer
  \/ SubTimer
  \/ MainClick
  \/ FundTypeSelectRest
  \/ SubClick
  \/ Flush

Spec == Init /\ [][Next]_vars

\* a Flush step, told by what it does to pc: Flush is the one action taken
\* with pc = "flush", it is enabled whenever pc = "flush", and it ends idle
Rendered == pc = "flush" /\ pc' = "idle"

\* Spec with the scheduling the runtime guarantees: a handler runs to its
\* end (JavaScript runs a task to completion) and React performs the render
\* it has scheduled for the queued updates. Nothing makes the promise of
\* loadExcelData settle, the timers fire or the user click.
SpecFair == Spec /\ WF_vars(FundTypeSelectRest) /\ WF_pc(Rendered)

-----------------------------------------------------------------------------
(* SpecDev: the development build (npm start, the way the README runs the   *)
(* application). index.js renders App inside React.StrictMode, under which  *)
(* React 18 runs every mount effect, cleans it up and runs it again. The    *)
(* effect of App.js:61-77 has no cleanup, so fetchData is called twice and  *)
(* two promises of loadExcelData are under way: fetch = "both". Both        *)
(* requests are for the same file.                                          *)

InitDev ==
  /\ MountedInit
  /\ fetch = "both"
  /\ aggIn = Arr(<< >>)
  /\ aggOut = NotCalled

\* the first of the two promises resolves
FirstLoadResolved ==
  /\ fetch = "both"
  /\ pc = "idle"
  /\ \E data \in Datasets : pending' = pending \o fetchDataResolved(data)
  /\ fetch' = "pending"
  /\ pc' = "flush"
  /\ UNCHANGED << fundData, loading, error, selectedFundType, selectedSubFund,
                  view, mainChart, subChart, inflight, lastSel, repeated,
                  aggVars >>

\* the first of the two promises rejects
FirstLoadRejected ==
  /\ fetch = "both"
  /\ pc = "idle"
  /\ pending' = pending \o fetchDataRejected
  /\ fetch' = "pending"
  /\ pc' = "flush"
  /\ UNCHANGED << fundData, loading, error, selectedFundType, selectedSubFund,
                  view, mainChart, subChart, inflight, lastSel, repeated,
                  aggVars >>

\* the other promise resolves: with the rows the first one delivered, if it
\* delivered any (the same file), else with any sheet
SecondLoadResolved ==
  /\ fetch = "pending"
  /\ pc = "idle"
  /\ \E data \in (IF error = JsNull THEN { fundData } ELSE Datasets) :
       pending' = pending \o fetchDataResolved(data)
  /\ fetch' = "settled"
  /\ pc' = "flush"
  /\ UNCHANGED << fundData, loading, error, selectedFundType, selectedSubFund,
                  view, mainChart, subChart, inflight, lastSel, repeated,
                  aggVars >>

\* (the other promise rejects: LoadRejected)
NextDev ==
  \/ FirstLoadResolved
  \/ FirstLoadRejected
  \/ SecondLoadResolved
  \/ LoadRejected
  \/ MainTimer
  \/ SubTimer
  \/ MainClick
  \/ FundTypeSelectRest
  \/ SubClick
  \/ Flush

SpecDev ==
  InitDev /\ [][NextDev]_vars /\ WF_vars(FundTypeSelectRest) /\ WF_pc(Rendered)

-----------------------------------------------------------------------------
(* SpecCells: the mounted application on a sheet whose FundType cells are   *)
(* not all text. sheet_to_json (dataLoader.js:40) hands every cell over as  *)
(* the worksheet holds it: a numeric cell as a number, a blank cell left    *)
(* out of the record.                                                       *)

CellFundTypes == { Str("Equity"), Num(10), Undefined }

CellRecords ==
  [FundType : CellFundTypes, Fund : Funds, MV : { Num(1) }, Equity : Equities]

CellDatasets == UNION { [1..n -> CellRecords] : n \in 0..MaxRecords }

\* loadExcelData resolves with such a sheet
LoadResolvedCells ==
  /\ fetch = "pending"
  /\ pc = "idle"
  /\ \E data \in CellDatasets : pending' = pending \o fetchDataResolved(data)
  /\ fetch' = "settled"
  /\ pc' = "flush"
  /\ UNCHANGED << fundData, loading, error, selectedFundType, selectedSubFund,
                  view, mainChart, subChart, inflight, lastSel, repeated,
                  aggVars >>

NextCells ==
  \/ LoadResolvedCells
  \/ LoadRejected
  \/ MainTimer
  \/ SubTimer
  \/ MainClick
  \/ FundTypeSelectRest
  \/ SubClick
  \/ Flush

SpecCells == Init /\ [][NextCells]_vars

-----------------------------------------------------------------------------
(* SpecAgg: one call of a dataLoader function on a bounded input *)

\* group cells: names, integer-like names, a name Object.prototype also
\* has, a blank cell
AggKeys == { Str("A"), Str("2"), Str("10"), Str("constructor"), Undefined }

\* value cells: blank, null, NaN, numbers, a text cell
AggValues == { Undefined, JsNull, JsNaN, Num(1), Num(2), Str("n/a") }

AggRecords ==
  [FundType : { Str("Equity") }, Fund : AggKeys, MV : AggValues,
   Equity : { Num(1) }]

AggInputs ==
  { NoArray("null"), NoArray("undefined") }
    \cup { Arr(items) : items \in UNION { [1..n -> AggRecords] : n \in 0..MaxLen } }

GroupFields == { "FundType", "Fund" }
ValueFields == { "MV", "Equity" }

InitAgg ==
  /\ AppInit
  /\ aggIn \in AggInputs
  /\ aggOut = NotCalled

CallCalculateTotalAUM ==
  /\ aggOut.fn = "none"
  /\ aggOut' = [NotCalled EXCEPT !.fn = "calculateTotalAUM",
                                 !.valueField = "MV",
                                 !.value = calculateTotalAUM(aggIn)]
  /\ UNCHANGED << aggIn, appVars >>

CallGroupDataByField ==
  /\ aggOut.fn = "none"
  /\ \E field \in GroupFields :
       LET g == groupDataByField(aggIn, field)
       IN aggOut' = [NotCalled EXCEPT !.fn = "groupDataByField",
                                      !.groupField = field,
                                      !.threw = g.threw,
                                      !.groups = g.groups]
  /\ UNCHANGED << aggIn, appVars >>

CallAggregateByField ==
  /\ aggOut.fn = "none"
  /\ \E groupField \in GroupFields, valueField \in ValueFields :
       LET a == aggregateByField(aggIn, groupField, valueField)
       IN aggOut' = [NotCalled EXCEPT !.fn = "aggregateByField",
                                      !.groupField = groupField,
                                      !.valueField = valueField,
                                      !.threw = a.threw,
                                      !.rows = a.rows]
  /\ UNCHANGED << aggIn, appVars >>

NextAgg ==
  \/ CallCalculateTotalAUM
  \/ CallGroupDataByField
  \/ CallAggregateByField

SpecAgg == InitAgg /\ [][NextAgg]_vars

-----------------------------------------------------------------------------
(* Reference notions the properties are stated with *)

\* the mathematical sum of the numbers in `field`; any other cell counts 0
RECURSIVE MathSum(_, _)
MathSum(items, field) ==
  IF items = << >> THEN 0
  ELSE (IF Field(Head(items), field).t = "number"
          THEN Field(Head(items), field).n ELSE 0)
       + MathSum(Tail(items), field)

\* the property key a cell of `field` groups under
KeyOf(item, field) == Str(ToStr(Field(item, field)))

\* the keys of `field`, each once, in the order of their first occurrence
RECURSIVE FirstOccurrences(_, _, _)
FirstOccurrences(items, field, seen) ==
  IF items = << >> THEN seen
  ELSE FirstOccurrences(
         Tail(items), field,
         IF \E i \in 1..Len(seen) : seen[i] = KeyOf(Head(items), field)
           THEN seen
           ELSE Append(seen, KeyOf(Head(items), field)))

\* the records of `items` that group under `key`
WithKey(items, field, key) ==
  LET Keep(item) == KeyOf(item, field) = key IN SelectSeq(items, Keep)

RECURSIVE CountSum(_)
CountSum(rows) ==
  IF rows = << >> THEN 0 ELSE Head(rows).count + CountSum(Tail(rows))

\* a handled click on the fund-type / sub-fund chart is about to be rendered
MainClickDone == pc = "flush" /\ inflight.chart = "main"
SubClickDone == pc = "flush" /\ inflight.chart = "sub"

\* ... and it is the second of two successive clicks on one segment
SecondMainClick ==
  MainClickDone /\ lastSel.chart = "main" /\ lastSel.label = inflight.label
SecondSubClick ==
  SubClickDone /\ lastSel.chart = "sub" /\ lastSel.label = inflight.label

-----------------------------------------------------------------------------
(* Properties of Spec *)

\* C1: in every reachable state, also between the two setState calls of
\* handleFundTypeSelect, a sub-fund is selected only while a fund type is.
HierarchyInvariant == selectedFundType = JsNull => selectedSubFund = JsNull

\* C1 witness: between the two calls of a click that deselects the fund
\* type while a sub-fund is selected
BetweenUpdatesOfDeselect ==
  /\ pc = "handleFundTypeSelect"
  /\ inflight.arg = JsNull
  /\ Len(pending) = 1
  /\ selectedSubFund # JsNull

\* C2: a handled click on a segment x of the fund-type chart other than the
\* selected one leaves fundType = x and subFund = none.
SelectOtherFundType ==
  [][(MainClickDone /\ inflight.label # selectedFundType)
       => (selectedFundType' = inflight.label /\ selectedSubFund' = JsNull)]_vars

\* C2 witness: such a click has been rendered, made with a sub-fund selected
OtherFundTypeSelected ==
  /\ pc = "idle"
  /\ lastSel.chart = "main"
  /\ lastSel.ft # JsNull
  /\ lastSel.label # lastSel.ft
  /\ lastSel.sf # JsNull
  /\ selectedFundType = lastSel.label

\* C3 as claimed: two successive clicks on fund type x end in Top, and Top
\* is the state s before the first click.
ToggleLawAsClaimed ==
  [][SecondMainClick
       => /\ selectedFundType' = JsNull
          /\ selectedSubFund' = JsNull
          /\ lastSel.ft = JsNull
          /\ lastSel.sf = JsNull]_vars

\* C3 amended: two successive clicks on fund type x end in Top when x was
\* not the selected type of s (and that is s only when s was Top); when x
\* was the selected type of s they end with x selected and no sub-fund.
ToggleLaw ==
  [][SecondMainClick
       => /\ selectedSubFund' = JsNull
          /\ lastSel.label # lastSel.ft => selectedFundType' = JsNull
          /\ lastSel.label = lastSel.ft => selectedFundType' = lastSel.label
          /\ lastSel.ft = JsNull
               => /\ selectedFundType' = lastSel.ft
                  /\ selectedSubFund' = lastSel.sf]_vars

\* C3 witness: two successive clicks on one fund type have been rendered
\* and ended in Top
ToggledBackToTop ==
  /\ pc = "idle"
  /\ repeated
  /\ lastSel.chart = "main"
  /\ selectedFundType = JsNull

\* C4 as claimed: two successive clicks on sub-fund v leave subFund = none,
\* neither changing fundType.
SubToggleAsClaimed ==
  [][SecondSubClick
       => /\ selectedSubFund' = JsNull
          /\ selectedFundType' = selectedFundType
          /\ selectedFundType = lastSel.ft]_vars

\* C4 amended: two successive clicks on sub-fund v leave subFund = none when
\* v was not the selected sub-fund before them, and leave v selected when it
\* was; neither click changes fundType.
SubToggle ==
  [][SecondSubClick
       => /\ lastSel.label # lastSel.sf => selectedSubFund' = JsNull
          /\ lastSel.label = lastSel.sf => selectedSubFund' = lastSel.label
          /\ selectedFundType' = selectedFundType
          /\ selectedFundType = lastSel.ft]_vars

\* C4 witness: two successive clicks on one sub-fund have been rendered and
\* ended with none selected, the fund type still selected
SubToggledOff ==
  /\ pc = "idle"
  /\ repeated
  /\ lastSel.chart = "sub"
  /\ selectedSubFund = JsNull
  /\ selectedFundType # JsNull

\* C5: while no fund type is selected the sub-fund chart is not part of the
\* page, it has neither listener nor timer, and no click on it is enabled.
NoSubFundEventAtTop ==
  selectedFundType = JsNull
    => /\ ~subChart.present
       /\ ~subChart.listener
       /\ ~subChart.timer
       /\ ~ENABLED SubClick

\* C5 witness: back at Top after a fund type, with a sub-fund, was selected
DeselectedFundType ==
  /\ pc = "idle"
  /\ selectedFundType = JsNull
  /\ lastSel.chart = "main"
  /\ lastSel.sf # JsNull
  /\ view.screen = "dashboard"

\* C6: on the dashboard the headline total is the sum of MV over all loaded
\* records and the top-level summary the aggregation of all of them, and no
\* handled click changes either.
GrandTotalFrame ==
  /\ [](view.screen = "dashboard"
          => /\ view.totalAUM = Num(MathSum(fundData, "MV"))
             /\ Labels(view.fundTypeData) = FirstOccurrences(fundData, "FundType", << >>)
             /\ \A i \in 1..Len(view.fundTypeData) :
                  view.fundTypeData[i].value
                    = Num(MathSum(WithKey(fundData, "FundType",
                                          view.fundTypeData[i].key), "MV")))
  /\ [][(inflight.chart # "none" /\ view'.screen = "dashboard")
          => /\ view'.totalAUM = view.totalAUM
             /\ view'.fundTypeData = view.fundTypeData]_vars

\* C6 witness: a drill-down whose records sum to less than the headline
DrilledDownBelowTotal ==
  /\ view.screen = "dashboard"
  /\ selectedSubFund # JsNull
  /\ MathSum(OfFundType(fundData, selectedFundType), "MV") > 0
  /\ MathSum(OfFundType(fundData, selectedFundType), "MV") < view.totalAUM.n

\* C12: the detail view is empty while no sub-fund is selected, and
\* otherwise it shows exactly the records whose Fund is the selected
\* sub-fund, in the order of the sheet, and a total row with the sum of
\* their MV and the sum of their Equity.
DetailOfSelection ==
  /\ selectedSubFund = JsNull
       => ~view.details.shown /\ view.details.rows = << >>
  /\ selectedSubFund # JsNull
       => /\ view.details.rows = OfFund(fundData, selectedSubFund)
          /\ view.details.totalMV = Num(MathSum(view.details.rows, "MV"))
          /\ view.details.totalEquity
               = Num(MathSum(view.details.rows, "Equity"))

\* C13: the load is attempted once and never again; a failed load leaves
\* the application in the error state for good (the message stays set, the
\* records stay empty, nothing is selected, no chart is mounted and no click
\* is enabled); and once
\* the load has come to either outcome, loading becomes false and stays so.
LoadOnceErrorTerminal ==
  /\ [](fetch # "both")
  /\ [][fetch = "settled" => fetch' = "settled"]_vars
  /\ [](error # JsNull
          => /\ view.screen = "error"
             /\ fundData = << >>
             /\ selectedFundType = JsNull
             /\ selectedSubFund = JsNull
             /\ mainChart = NoChart
             /\ subChart = NoChart
             /\ ~ENABLED MainClick
             /\ ~ENABLED SubClick)
  /\ [][error # JsNull => error' = error]_vars
  /\ [][~loading => ~loading']_vars
  /\ [](fetch = "settled" => <>[](~loading))

\* the load has failed and the error screen is rendered
ErrorScreenRendered ==
  /\ pc = "idle"
  /\ fetch = "settled"
  /\ error = LoadErrorMessage
  /\ ~loading
  /\ view.screen = "error"

-----------------------------------------------------------------------------
(* Properties of SpecAgg *)

\* C7: the rows of aggregateByField come in the order in which their keys
\* first occur in the input, integer-like keys ("10", "2") included.
RowsInFirstOccurrenceOrder ==
  (aggOut.fn = "aggregateByField" /\ ~aggOut.threw)
    => Labels(aggOut.rows)
         = FirstOccurrences(aggIn.items, aggOut.groupField, << >>)

\* C8: calculateTotalAUM and every per-group sum of aggregateByField equal
\* the mathematical sum of the numbers in the value field, any other cell
\* (undefined, null, NaN, text) counting 0.
SumsCoerceToZero ==
  /\ aggOut.fn = "calculateTotalAUM"
       => aggOut.value = Num(MathSum(aggIn.items, "MV"))
  /\ (aggOut.fn = "aggregateByField" /\ ~aggOut.threw)
       => \A i \in 1..Len(aggOut.rows) :
            aggOut.rows[i].value
              = Num(MathSum(WithKey(aggIn.items, aggOut.groupField,
                                    aggOut.rows[i].key),
                            aggOut.valueField))

\* C9: the sum of the rows' sums (added as App.js:166 adds them) equals the
\* total of the same records and value field.
TotalPreserved ==
  (aggOut.fn = "aggregateByField" /\ ~aggOut.threw)
    => ReduceRows(aggOut.rows, Num(0))
         = IF aggOut.valueField = "MV"
             THEN calculateTotalAUM(aggIn)
             ELSE ReduceSum(aggIn.items, aggOut.valueField, Num(0))

\* C10: aggregateByField returns rows whose counts add up to the length of
\* the input and whose keys are pairwise distinct.
EveryRecordCountedOnce ==
  aggOut.fn = "aggregateByField"
    => /\ ~aggOut.threw
       /\ CountSum(aggOut.rows) = Len(aggIn.items)
       /\ \A i, j \in 1..Len(aggOut.rows) :
            aggOut.rows[i].key = aggOut.rows[j].key => i = j

\* C15: whatever the order of renders, timers, cleanups and clicks, a chart
\* never has more than one click listener; the listener that takes a click
\* holds the labels and the selection of the state App is in, not those of
\* an earlier render; hence a handled click on the selected segment
\* deselects it.
OneCurrentListener ==
  /\ [](/\ Len(mainChart.attached) <= 1
        /\ Len(subChart.attached) <= 1
        /\ \A k \in 1..Len(mainChart.attached) :
             /\ mainChart.attached[k].selectedItem = selectedFundType
             /\ mainChart.attached[k].labels = Labels(view.fundTypeData)
        /\ \A k \in 1..Len(subChart.attached) :
             /\ subChart.attached[k].selectedItem = selectedSubFund
             /\ subChart.attached[k].labels = Labels(view.subFundData))
  /\ [][(MainClickDone /\ inflight.label = selectedFundType)
          => (inflight.arg = JsNull /\ selectedFundType' = JsNull)]_vars
  /\ [][(SubClickDone /\ inflight.label = selectedSubFund)
          => /\ inflight.arg = JsNull
             /\ selectedSubFund' = JsNull
             /\ selectedFundType' = selectedFundType]_vars

\* C15 witness: the selected sub-fund was clicked and is deselected, and the
\* chart, rendered again, has its listener back
DeselectedByCurrentListener ==
  /\ pc = "idle"
  /\ lastSel.chart = "sub"
  /\ lastSel.label = lastSel.sf
  /\ selectedSubFund = JsNull
  /\ Len(subChart.attached) = 1
  /\ Len(mainChart.attached) = 1

\* C16: with fund type t and sub-fund f selected, the MV total of the detail
\* view equals the MV of f's row in the second-level view, and every record
\* of the detail view has FundType t; also when the sheet has the Fund name
\* f under two fund types.
DrillDownLevelsAgree ==
  (view.screen = "dashboard" /\ selectedFundType # JsNull
     /\ selectedSubFund # JsNull)
    => /\ \A i \in 1..Len(view.subFundData) :
            view.subFundData[i].key = selectedSubFund
              => view.details.totalMV = view.subFundData[i].value
       /\ \A j \in 1..Len(view.details.rows) :
            view.details.rows[j].FundType = selectedFundType

-----------------------------------------------------------------------------
(* Properties of SpecCells *)

\* the records counted in the row of the fund-type chart labelled `label`
ContributedTo(label) == WithKey(fundData, "FundType", label)

\* C11: the second-level view is empty while no fund type is selected, and
\* otherwise it is the aggregation by Fund, summing MV, of the records whose
\* FundType is the selected one; after a click on a row of the top-level
\* view it accounts for every record that contributed to that row.
SecondLevelOfSelection ==
  /\ selectedFundType = JsNull => view.subFundData = << >>
  /\ (view.screen = "dashboard" /\ selectedFundType # JsNull)
       => /\ Labels(view.subFundData)
               = FirstOccurrences(OfFundType(fundData, selectedFundType),
                                  "Fund", << >>)
          /\ \A i \in 1..Len(view.subFundData) :
               view.subFundData[i].value
                 = Num(MathSum(WithKey(OfFundType(fundData, selectedFundType),
                                       "Fund", view.subFundData[i].key), "MV"))
          /\ \A i \in 1..Len(view.fundTypeData) :
               view.fundTypeData[i].key = selectedFundType
                 => CountSum(view.subFundData) = view.fundTypeData[i].count
          /\ CountSum(view.subFundData)
               = Len(ContributedTo(selectedFundType))

\* C14: on an empty, null or undefined data argument calculateTotalAUM
\* returns 0, groupDataByField an empty object and aggregateByField an empty
\* array, none of them throwing; and while the load is under way (the
\* records still the empty array) the total shown is 0 and every view empty.
TotalOnNoData ==
  /\ (aggOut.fn # "none" /\ (aggIn.t # "array" \/ aggIn.items = << >>))
       => /\ ~aggOut.threw
          /\ aggOut.fn = "calculateTotalAUM" => aggOut.value = Num(0)
          /\ aggOut.fn = "groupDataByField" => aggOut.groups = << >>
          /\ aggOut.fn = "aggregateByField" => aggOut.rows = << >>
  /\ (fetch = "pending" /\ loading)
       => /\ view.screen = "loading"
          /\ view.totalAUM = Num(0)
          /\ view.fundTypeData = << >>
          /\ view.subFundData = << >>
          /\ view.details.rows = << >>
          /\ ~view.details.shown

\* C14 witness: aggregateByField has been called on null
AggregatedNull ==
  /\ aggIn = NoArray("null")
  /\ aggOut.fn = "aggregateByField"
  /\ fetch = "pending"
  /\ loading

=============================================================================
